---- MODULE Spec2Model ----
(***************************************************************************)
(* Annotation store and document synchronisation of vibe-notes.            *)
(*                                                                         *)
(* Strings are sequences of one-character strings, so that escaping,       *)
(* regular-expression matching, splitting and trimming are computed the    *)
(* way the TypeScript code computes them.                                  *)
(***************************************************************************)
EXTENDS Integers, Sequences, FiniteSets, TLC

VARIABLES
    pc,                     \* position of the pure-function pipelines
    inp,                    \* the input the pipeline was started with
    out,                    \* what the pipeline has computed so far
    noteFile,               \* the canonical store file: [exists, content]
    markdownFile,           \* the rendered document file: [exists, content]
    isUpdatingFromMarkdown, \* the handler's in-flight guard
    sync,                   \* the running syncFromMarkdown calls, by slot
    user,                   \* the user's document: its sections, edits made
    last                    \* the last completed operation and its outcome

vars == <<pc, inp, out, noteFile, markdownFile, isUpdatingFromMarkdown, sync, user, last>>

----------------------------------------------------------------------------
(* Characters and strings                                                  *)

BS == "\\"
QT == "\""
NL == "\n"
CR == "\r"
SP == " "

Digit == {"0", "1", "2", "3", "4", "5", "6", "7", "8", "9"}

\* JavaScript \s, restricted to the characters the model uses
Space == {SP, "\t", NL, CR}

\* JavaScript line terminators: the characters "." does not match
LineTerminator == {NL, CR}

\* s.substring(i - 1): the characters from the 1-based position i on
From(s, i) == SubSeq(s, i, Len(s))

\* s.startsWith(p)
StartsWith(s, p) == Len(s) >= Len(p) /\ SubSeq(s, 1, Len(p)) = p

\* the number of consecutive characters of s from position i on that are in S
RECURSIVE Span(_, _, _)
Span(s, i, S) ==
    IF i <= Len(s) /\ s[i] \in S THEN 1 + Span(s, i + 1, S) ELSE 0

\* String.prototype.trim
RECURSIVE TrimEnd(_)
TrimEnd(s) ==
    IF Len(s) > 0 /\ s[Len(s)] \in Space THEN TrimEnd(SubSeq(s, 1, Len(s) - 1)) ELSE s

Trim(s) == TrimEnd(From(s, Span(s, 1, Space) + 1))

\* s.indexOf(c, i - 1) + 1: the first position of c at or after i, 0 if none;
\* s.split("\n"): the lines of s; the empty string has one empty line
RECURSIVE IndexOf(_, _, _)
IndexOf(s, i, c) ==
    IF i > Len(s) THEN 0 ELSE IF s[i] = c THEN i ELSE IndexOf(s, i + 1, c)

RECURSIVE Split(_)
Split(s) ==
    LET k == IndexOf(s, 1, NL)
    IN  IF k = 0 THEN <<s>>
        ELSE <<SubSeq(s, 1, k - 1)>> \o Split(From(s, k + 1))

\* lines.join("\n")
RECURSIVE Join(_)
Join(lines) ==
    IF Len(lines) = 0 THEN <<>>
    ELSE IF Len(lines) = 1 THEN lines[1]
    ELSE lines[1] \o <<NL>> \o Join(Tail(lines))

\* s.replace(/c/g, r): every occurrence of the character c becomes r
RECURSIVE ReplaceChar(_, _, _)
ReplaceChar(s, c, r) ==
    IF Len(s) = 0 THEN <<>>
    ELSE (IF s[1] = c THEN r ELSE <<s[1]>>) \o ReplaceChar(Tail(s), c, r)

\* s.replace(/\\c/g, r): every backslash followed by c becomes r,
\* scanning from the left, matches not overlapping
RECURSIVE ReplaceEscape(_, _, _)
ReplaceEscape(s, c, r) ==
    IF Len(s) = 0 THEN <<>>
    ELSE IF Len(s) >= 2 /\ s[1] = BS /\ s[2] = c
         THEN <<r>> \o ReplaceEscape(From(s, 3), c, r)
         ELSE <<s[1]>> \o ReplaceEscape(Tail(s), c, r)

\* the template literal ${n} for a non-negative integer
RECURSIVE NumToStr(_)
NumToStr(n) ==
    LET d == <<"0", "1", "2", "3", "4", "5", "6", "7", "8", "9">>
    IN  IF n < 10 THEN <<d[n + 1]>> ELSE NumToStr(n \div 10) \o <<d[(n % 10) + 1]>>

DigitVal(c) == CHOOSE v \in 0..9 : NumToStr(v) = <<c>>

\* Number(s) for a string of decimal digits
RECURSIVE StrToNum(_)
StrToNum(s) ==
    IF Len(s) = 0 THEN 0
    ELSE 10 * StrToNum(SubSeq(s, 1, Len(s) - 1)) + DigitVal(s[Len(s)])

\* the characters of the model in UTF-16 code unit order (the backquote,
\* which no string of the model contains, is left out)
CodeOrder ==
    <<"\t", "\n", "\r", " ", "!", "\"", "#", "$", "%", "&", "'", "(", ")",
      "*", "+", ",", "-", ".", "/", "0", "1", "2", "3", "4", "5", "6", "7",
      "8", "9", ":", ";", "<", "=", ">", "?", "@", "A", "B", "C", "D", "E",
      "F", "G", "H", "I", "J", "K", "L", "M", "N", "O", "P", "Q", "R", "S",
      "T", "U", "V", "W", "X", "Y", "Z", "[", "\\", "]", "^", "_",
      "a", "b", "c", "d", "e", "f", "g", "h", "i", "j", "k", "l", "m", "n",
      "o", "p", "q", "r", "s", "t", "u", "v", "w", "x", "y", "z", "{", "|",
      "}", "~">>

Code(c) == CHOOSE i \in 1..Len(CodeOrder) : CodeOrder[i] = c

\* a < b in the default Array.prototype.sort order (by code units)
RECURSIVE LexLess(_, _)
LexLess(a, b) ==
    IF Len(b) = 0 THEN FALSE
    ELSE IF Len(a) = 0 THEN TRUE
    ELSE IF a[1] = b[1] THEN LexLess(Tail(a), Tail(b))
    ELSE Code(a[1]) < Code(b[1])

\* num.toString().padStart(width, " ")
RECURSIVE PadStart(_, _)
PadStart(s, width) == IF Len(s) >= width THEN s ELSE PadStart(<<SP>> \o s, width)

\* Object.keys(...).sort() over a set of strings
RECURSIVE SortStrings(_)
SortStrings(S) ==
    IF S = {} THEN <<>>
    ELSE LET m == CHOOSE x \in S : \A y \in S \ {x} : LexLess(x, y)
         IN  <<m>> \o SortStrings(S \ {m})

\* array.sort((a, b) => a.startLine - b.startLine): a stable sort
RECURSIVE SortByStartLine(_)
SortByStartLine(notes) ==
    IF Len(notes) = 0 THEN <<>>
    ELSE LET sorted == SortByStartLine(SubSeq(notes, 1, Len(notes) - 1))
             x      == notes[Len(notes)]
             k      == Cardinality({i \in 1..Len(sorted) : sorted[i].startLine <= x.startLine})
         IN  SubSeq(sorted, 1, k) \o <<x>> \o SubSeq(sorted, k + 1, Len(sorted))

\* lines.push(...) of every element of a sequence of sequences
RECURSIVE Flatten(_)
Flatten(ss) == IF Len(ss) = 0 THEN <<>> ELSE ss[1] \o Flatten(Tail(ss))

----------------------------------------------------------------------------
(* Record codec: one annotation per store line                             *)

\* the result of a failed match or parse
NoNote == [ok |-> FALSE]

formatLineSpec(startLine, endLine) ==
    IF startLine = endLine THEN NumToStr(startLine)
    ELSE NumToStr(startLine) \o <<"-">> \o NumToStr(endLine)

\* an escape that leaves the newlines of the text as they are
escapeNote_RawNewline(note) ==
    ReplaceChar(ReplaceChar(note, BS, <<BS, BS>>), QT, <<BS, QT>>)

\* note.replace(/\\/g, "\\\\").replace(/"/g, '\\"').replace(/\n/g, "\\n")
escapeNote(note) ==
    ReplaceChar(ReplaceChar(ReplaceChar(note, BS, <<BS, BS>>), QT, <<BS, QT>>), NL, <<BS, "n">>)

\* the template literal ${filePath}#L${lineSpec} "${escapedNote}"
formatNoteLine(filePath, startLine, endLine, note) ==
    filePath \o <<"#", "L">> \o formatLineSpec(startLine, endLine)
             \o <<SP, QT>> \o escapeNote(note) \o <<QT>>

\* rawComment.replace(/\\n/g, "\n").replace(/\\"/g, '"').replace(/\\\\/g, "\\")
unescapeNote(rawComment) ==
    ReplaceEscape(ReplaceEscape(ReplaceEscape(rawComment, "n", NL), QT, QT), BS, BS)

\* ((?:[^"\\]|\\.)*) from position i: the position of the first character
\* the group does not consume
RECURSIVE CommentEnd(_, _)
CommentEnd(s, i) ==
    IF i > Len(s) THEN i
    ELSE IF s[i] = QT THEN i
    ELSE IF s[i] = BS
         THEN IF i + 1 <= Len(s) /\ s[i + 1] \notin LineTerminator
              THEN CommentEnd(s, i + 2) ELSE i
    ELSE CommentEnd(s, i + 1)

\* \d+ at position i of s, with (?:,\d+)? after it when columns are part of
\* the grammar: the position after the match, i if there is none
PositionEnd(s, i, columns) ==
    LET d == Span(s, i, Digit)
        a == i + d
        c == IF columns /\ d > 0 /\ a <= Len(s) /\ s[a] = "," THEN Span(s, a + 1, Digit) ELSE 0
    IN  IF c > 0 THEN a + 1 + c ELSE a

\* #L(<position>(?:-<position>)?)\s+"((?:[^"\\]|\\.)*)"\s*$ matched at
\* position i of s
MatchPosition(s, i, columns) ==
    LET Match(b, q, e) ==
            IF /\ i + 1 <= Len(s) /\ s[i] = "#" /\ s[i + 1] = "L"
               /\ b > i + 2 /\ q > b
               /\ q <= Len(s) /\ s[q] = QT
               /\ e <= Len(s) /\ s[e] = QT
               /\ Span(s, e + 1, Space) = Len(s) - e
            THEN [ok |-> TRUE, positionSpec |-> SubSeq(s, i + 2, b - 1),
                  rawComment |-> SubSeq(s, q + 1, e - 1)]
            ELSE NoNote
        Comment(b, q) == Match(b, q, CommentEnd(s, q + 1))
        Blank(b)      == Comment(b, b + Span(s, b, Space))
        Second(a, a2) == Blank(IF a > i + 2 /\ a <= Len(s) /\ s[a] = "-" /\ a2 > a + 1
                               THEN a2 ELSE a)
        First(a)      == Second(a, PositionEnd(s, a + 1, columns))
    IN  First(PositionEnd(s, i + 2, columns))

\* ^(.+?) : the shortest non-empty prefix without a line terminator after
\* which the rest of the pattern matches; 0 if there is none
RECURSIVE PathEnd(_, _, _)
PathEnd(s, k, columns) ==
    IF k > Len(s) \/ s[k] \in LineTerminator THEN 0
    ELSE IF MatchPosition(s, k + 1, columns).ok THEN k
    ELSE PathEnd(s, k + 1, columns)

LineRegex(line, columns) ==
    LET Groups(k, match) ==
            IF k = 0 THEN NoNote
            ELSE [ok |-> TRUE, filePath |-> SubSeq(line, 1, k),
                  positionSpec |-> match.positionSpec, rawComment |-> match.rawComment]
        Path(k) == Groups(k, MatchPosition(line, k + 1, columns))
    IN  Path(PathEnd(line, 1, columns))

\* /^(.+?)#L(\d+(?:-\d+)?)\s+"((?:[^"\\]|\\.)*)"\s*$/
noteLineRegex(line) == LineRegex(line, FALSE)

\* /^(.+?)#L(\d+(?:,\d+)?(?:-\d+(?:,\d+)?)?)\s+"((?:[^"\\]|\\.)*)"\s*$/
reviewLineRegex(line) == LineRegex(line, TRUE)

parseNote(line) ==
    LET Note(match, dash) ==
            IF ~match.ok THEN NoNote
            ELSE [ok |-> TRUE,
                  filePath |-> match.filePath,
                  startLine |-> StrToNum(IF dash > 0
                                         THEN SubSeq(match.positionSpec, 1, dash - 1)
                                         ELSE match.positionSpec),
                  endLine |-> StrToNum(IF dash > 0
                                       THEN From(match.positionSpec, dash + 1)
                                       ELSE match.positionSpec),
                  comment |-> unescapeNote(match.rawComment),
                  raw |-> line]
        Matched(match) == Note(match, IF match.ok THEN IndexOf(match.positionSpec, 1, "-") ELSE 0)
    IN  Matched(noteLineRegex(line))

SeqMap(Op(_), s) == [i \in 1..Len(s) |-> Op(s[i])]

\* no column: undefined
NoColumn == -1

\* parsePosition(pos)
parsePosition(pos) ==
    LET comma == IndexOf(pos, 1, ",")
    IN  IF comma = 0 THEN [line |-> StrToNum(pos), column |-> NoColumn]
        ELSE [line |-> StrToNum(SubSeq(pos, 1, comma - 1)),
              column |-> StrToNum(From(pos, comma + 1))]

parseReviewComment(line) ==
    LET Comment(match, start, end) ==
            IF ~match.ok THEN NoNote
            ELSE [ok |-> TRUE,
                  filePath |-> match.filePath,
                  startLine |-> start.line, endLine |-> end.line,
                  startColumn |-> start.column, endColumn |-> end.column,
                  comment |-> unescapeNote(match.rawComment),
                  raw |-> line]
        Positions(match, spec, dash) ==
            Comment(match,
                    parsePosition(IF dash > 0 THEN SubSeq(spec, 1, dash - 1) ELSE spec),
                    parsePosition(IF dash > 0 THEN From(spec, dash + 1) ELSE spec))
        Matched(match) ==
            Positions(match, IF match.ok THEN match.positionSpec ELSE <<>>,
                      IF match.ok THEN IndexOf(match.positionSpec, 1, "-") ELSE 0)
    IN  Matched(reviewLineRegex(line))

\* an error line numbering that counts the decoded lines only
ParseFile_CountDecoded(content, columns) ==
    LET Result(lines, parsed) ==
            [notes  |-> SelectSeq(parsed, LAMBDA n : n.ok),
             errors |-> SeqMap(LAMBDA i : [line |-> Cardinality({j \in 1..i :
                                                       Trim(lines[j]) # <<>>}),
                                           content |-> lines[i]],
                               SelectSeq([i \in 1..Len(lines) |-> i],
                                         LAMBDA i : Trim(lines[i]) # <<>> /\ ~parsed[i].ok))]
        Parsed(lines) ==
            Result(lines,
                   [i \in 1..Len(lines) |->
                       IF Trim(lines[i]) = <<>> THEN NoNote
                       ELSE IF columns THEN parseReviewComment(lines[i])
                       ELSE parseNote(lines[i])])
    IN  Parsed(Split(content))

\* lines.forEach((line, index) => ...): blank lines are skipped, every other
\* line gives a note or an error with its 1-based line number
ParseFile(content, columns) ==
    LET Result(lines, parsed) ==
            [notes  |-> SelectSeq(parsed, LAMBDA n : n.ok),
             errors |-> SeqMap(LAMBDA i : [line |-> i, content |-> lines[i]],
                               SelectSeq([i \in 1..Len(lines) |-> i],
                                         LAMBDA i : Trim(lines[i]) # <<>> /\ ~parsed[i].ok))]
        Parsed(lines) ==
            Result(lines,
                   [i \in 1..Len(lines) |->
                       IF Trim(lines[i]) = <<>> THEN NoNote
                       ELSE IF columns THEN parseReviewComment(lines[i])
                       ELSE parseNote(lines[i])])
    IN  Parsed(Split(content))

parseNoteFileWithErrors(content) == ParseFile(content, FALSE)

parseReviewFileWithErrors(content) == ParseFile(content, TRUE)

\* the annotation of a parsed note, without the raw line
Annotation(n) ==
    [filePath |-> n.filePath, startLine |-> n.startLine, endLine |-> n.endLine,
     comment |-> n.comment]

----------------------------------------------------------------------------
(* Code excerpt formatter                                                  *)

\* the columns of leading whitespace of a line: a space 1, a tab 4
RECURSIVE LeadingIndent(_)
LeadingIndent(line) ==
    IF Len(line) = 0 THEN 0
    ELSE IF line[1] = SP THEN 1 + LeadingIndent(Tail(line))
    ELSE IF line[1] = "\t" THEN 4 + LeadingIndent(Tail(line))
    ELSE 0

Min(S) == CHOOSE x \in S : \A y \in S : x <= y

\* a minimum that also counts the lines of whitespace only
calculateMinimumIndent_AllLines(lines) ==
    LET indents == {LeadingIndent(lines[i]) : i \in 1..Len(lines)}
    IN  IF indents = {} THEN 0 ELSE Min(indents)

calculateMinimumIndent(lines) ==
    LET indents == {LeadingIndent(lines[i]) :
                        i \in {j \in 1..Len(lines) : Len(Trim(lines[j])) > 0}}
    IN  IF indents = {} THEN 0 ELSE Min(indents)

\* the while loop of removeIndent: the number of characters consumed
RECURSIVE ConsumedIndent(_, _, _, _)
ConsumedIndent(line, i, removedCount, indentToRemove) ==
    IF i <= Len(line) /\ removedCount < indentToRemove
    THEN IF line[i] = SP
         THEN ConsumedIndent(line, i + 1, removedCount + 1, indentToRemove)
         ELSE IF line[i] = "\t"
              THEN ConsumedIndent(line, i + 1, removedCount + 4, indentToRemove)
              ELSE i - 1
    ELSE i - 1

\* a removal without the early return for lines of whitespace only
removeIndent_Blank(line, indentToRemove) ==
    IF indentToRemove = 0 THEN line
    ELSE From(line, ConsumedIndent(line, 1, 0, indentToRemove) + 1)

removeIndent(line, indentToRemove) ==
    IF indentToRemove = 0 \/ Len(Trim(line)) = 0 THEN line
    ELSE From(line, ConsumedIndent(line, 1, 0, indentToRemove) + 1)

generateCodePreview(fileLines, startLine, endLine) ==
    LET actualEndLine   == IF endLine < Len(fileLines) THEN endLine ELSE Len(fileLines)
        maxLineNumWidth == Len(NumToStr(actualEndLine))
        lineNums  == {n \in startLine..actualEndLine : n >= 1}
        first     == IF lineNums = {} THEN 1 ELSE Min(lineNums)
        rawLines  == [k \in 1..Cardinality(lineNums) |-> fileLines[first + k - 1]]
        minIndent == calculateMinimumIndent(rawLines)
    IN  IF Len(fileLines) = 0 THEN <<>>
        ELSE [k \in 1..Cardinality(lineNums) |->
                <<">", SP>> \o PadStart(NumToStr(first + k - 1), maxLineNumWidth)
                    \o <<":", SP>> \o removeIndent(rawLines[k], minIndent)]

----------------------------------------------------------------------------
(* Document renderer                                                       *)

\* a placeholder that is a section of its own
NoNotesFound_Section ==
    <<"#", "#", " ", "[", "f", "]", "(", "f", ")", "\n", "#", "#", "#", " ",
      "[", "L", "1", "]", "(", "f", "#", "L", "1", ")", "\n", "\n", "a">>

NoNotesFound ==
    <<"*", "N", "o", " ", "n", "o", "t", "e", "s", " ", "f", "o", "u",
      "n", "d", "*">>

\* the sections of one note: range heading, excerpt, text
NoteSection(filePath, fileLines, note, includeCode) ==
    LET lineSpec == <<"L">> \o formatLineSpec(note.startLine, note.endLine)
        lineLink == filePath \o <<"#", "L">> \o NumToStr(note.startLine)
        codePreviewLines ==
            IF includeCode /\ Len(fileLines) > 0
            THEN generateCodePreview(fileLines, note.startLine, note.endLine)
            ELSE <<>>
    IN  << <<"#", "#", "#", SP, "[">> \o lineSpec \o <<"]", "(">> \o lineLink \o <<")">>,
           <<>> >>
        \o (IF Len(codePreviewLines) > 0 THEN codePreviewLines \o << <<>> >> ELSE <<>>)
        \o << note.comment, <<>> >>

\* the sections of one file with its notes in the order of the store
FileSection_StoreOrder(filePath, fileLines, notes, includeCode) ==
    LET fileNotes == SelectSeq(notes, LAMBDA n : n.filePath = filePath)
    IN  << <<"#", "#", SP, "[">> \o filePath \o <<"]", "(">> \o filePath \o <<")">>,
           <<>> >>
        \o Flatten([k \in 1..Len(fileNotes) |->
                       NoteSection(filePath, fileLines, fileNotes[k], includeCode)])

\* the sections of one file: file heading, then its notes by start line
FileSection(filePath, fileLines, notes, includeCode) ==
    LET fileNotes == SortByStartLine(SelectSeq(notes, LAMBDA n : n.filePath = filePath))
    IN  << <<"#", "#", SP, "[">> \o filePath \o <<"]", "(">> \o filePath \o <<")">>,
           <<>> >>
        \o Flatten([k \in 1..Len(fileNotes) |->
                       NoteSection(filePath, fileLines, fileNotes[k], includeCode)])

\* the workspace: the source file f has two lines, no other file is readable
workspaceFile(filePath) ==
    IF filePath = <<"f">> THEN << <<SP, SP, "a">>, <<"\t", "n">> >> ELSE <<>>

\* new Date().toLocaleString() when the document is generated
Now == <<"1", "1", ":", "5", "9">>

\* generateEnhancedMarkdown; the source files are read from the workspace
generateEnhancedMarkdown(notes, includeCode) ==
    LET sortedFilePaths  == SortStrings({notes[i].filePath : i \in 1..Len(notes)})
        markdownSections ==
            Flatten([k \in 1..Len(sortedFilePaths) |->
                FileSection(sortedFilePaths[k],
                            IF includeCode THEN workspaceFile(sortedFilePaths[k]) ELSE <<>>,
                            notes, includeCode)])
        n == Len(markdownSections)
    IN  IF Len(notes) = 0 THEN NoNotesFound
        ELSE Join(IF markdownSections[n] = <<>>
                  THEN SubSeq(markdownSections, 1, n - 1) ELSE markdownSections)

PreambleHead ==
    <<">", " ", "Y", "o", "u", " ", "c", "a", "n", " ", "n", "o", "w",
      " ", "f", "u", "l", "l", "y", " ", "e", "d", "i", "t", " ", "t",
      "h", "i", "s", " ", "m", "a", "r", "k", "d", "o", "w", "n", " ",
      "f", "i", "l", "e", "!", "\n", ">", " ", "-", " ", "E", "d", "i",
      "t", " ", "e", "x", "i", "s", "t", "i", "n", "g", " ", "n", "o",
      "t", "e", " ", "c", "o", "n", "t", "e", "n", "t", "\n", ">", " ",
      "-", " ", "A", "d", "d", " ", "n", "e", "w", " ", "n", "o", "t",
      "e", "s", "\n", ">", " ", "-", " ", "D", "e", "l", "e", "t", "e",
      " ", "n", "o", "t", "e", "s", " ", " ", "\n", ">", " ", "-", " ",
      "C", "h", "a", "n", "g", "e", " ", "l", "i", "n", "e", " ", "n",
      "u", "m", "b", "e", "r", "s", "\n", ">", " ", "S", "a", "v", "e",
      " ", "t", "h", "e", " ", "f", "i", "l", "e", " ", "(", "C", "t",
      "r", "l", "+", "S", " ", "/", " ", "C", "m", "d", "+", "S", ")",
      " ", "t", "o", " ", "a", "p", "p", "l", "y", " ", "a", "l", "l",
      " ", "c", "h", "a", "n", "g", "e", "s", ".", "\n", "\n", "G", "e",
      "n", "e", "r", "a", "t", "e", "d", ":", " ">>

PreambleTail ==
    <<"\n", "\n", "-", "-", "-", "\n", "\n", "#", " ", "V", "i", "b",
      "e", " ", "N", "o", "t", "e", "s", "\n", "\n">>

\* generateMarkdownFileContent
generateMarkdownFileContent(notes) ==
    PreambleHead \o Now \o PreambleTail \o generateEnhancedMarkdown(notes, TRUE)

----------------------------------------------------------------------------
(* Document extractor                                                      *)

\* no line terminator among the characters i..j of s (what .+? and .*? accept)
NoTerminator(s, i, j) == \A k \in i..j : s[k] \notin LineTerminator

\* line.match(/^##\s+\[(.+?)\]/): the captured path, empty if no match
FileHeading(line) ==
    LET w     == Span(line, 3, Space)
        b     == 3 + w
        close == IndexOf(line, b + 2, "]")
    IN  IF /\ StartsWith(line, <<"#", "#">>) /\ w > 0
           /\ b <= Len(line) /\ line[b] = "["
           /\ close > 0 /\ NoTerminator(line, b + 1, close - 1)
        THEN SubSeq(line, b + 1, close - 1) ELSE <<>>

\* line.match(/^###\s+\[L([\d\-]+)\]\(.*?\)/): the captured line spec,
\* empty if no match
LineHeading(line) ==
    LET w     == Span(line, 4, Space)
        b     == 4 + w
        d     == Span(line, b + 2, Digit \cup {"-"})
        c     == b + 2 + d
        close == IndexOf(line, c + 2, ")")
    IN  IF /\ StartsWith(line, <<"#", "#", "#">>) /\ w > 0
           /\ b + 1 <= Len(line) /\ line[b] = "[" /\ line[b + 1] = "L"
           /\ d > 0
           /\ c + 1 <= Len(line) /\ line[c] = "]" /\ line[c + 1] = "("
           /\ close > 0 /\ NoTerminator(line, c + 2, close - 1)
        THEN SubSeq(line, b + 2, c - 1) ELSE <<>>

\* a Map<string, string> is the sequence of its entries in insertion order
MapHas(m, key) == \E i \in 1..Len(m) : m[i].key = key

MapGet(m, key) == m[CHOOSE i \in 1..Len(m) : m[i].key = key].value

MapSet(m, key, value) ==
    IF MapHas(m, key)
    THEN [i \in 1..Len(m) |-> IF m[i].key = key THEN [key |-> key, value |-> value] ELSE m[i]]
    ELSE Append(m, [key |-> key, value |-> value])

\* the state of the line loop of parseMarkdownComments before the first line;
\* null is the empty string (both are falsy, and no heading captures one)
CommentsStart ==
    [currentFile |-> <<>>, currentLineSpec |-> <<>>, collectingComment |-> FALSE,
     commentLines |-> <<>>, commentMap |-> <<>>]

\* "Save previous comment if exists"
SaveComment(st) ==
    IF st.currentFile # <<>> /\ st.currentLineSpec # <<>> /\ Len(st.commentLines) > 0
    THEN MapSet(st.commentMap, st.currentFile \o <<"#", "L">> \o st.currentLineSpec,
                Trim(Join(st.commentLines)))
    ELSE st.commentMap

\* one iteration of the line loop of parseMarkdownComments
CommentsStep(st, lines, i) ==
    LET line     == lines[i]
        nextLine == IF i + 1 <= Len(lines) THEN lines[i + 1] ELSE <<>>
    IN  IF FileHeading(line) # <<>>
        THEN [currentFile |-> FileHeading(line), currentLineSpec |-> <<>>,
              collectingComment |-> FALSE, commentLines |-> <<>>,
              commentMap |-> SaveComment(st)]
        ELSE IF LineHeading(line) # <<>> /\ st.currentFile # <<>>
        THEN [st EXCEPT !.currentLineSpec = LineHeading(line),
                        !.collectingComment = TRUE, !.commentLines = <<>>,
                        !.commentMap = SaveComment(st)]
        ELSE IF ~st.collectingComment THEN st
        ELSE IF StartsWith(line, <<">", SP>>) THEN st
        ELSE IF line = <<>> /\ (\/ StartsWith(nextLine, <<"#", "#">>)
                               \/ StartsWith(nextLine, <<"#", "#", "#">>))
        THEN [st EXCEPT !.collectingComment = FALSE, !.commentLines = <<>>,
                        !.commentMap = SaveComment(st)]
        ELSE IF line # <<>> \/ Len(st.commentLines) > 0
        THEN [st EXCEPT !.commentLines = Append(@, line)]
        ELSE st

RECURSIVE CommentsLoop(_, _, _)
CommentsLoop(st, lines, i) ==
    IF i > Len(lines) THEN st ELSE CommentsLoop(CommentsStep(st, lines, i), lines, i + 1)

parseMarkdownComments(markdownContent) ==
    SaveComment(CommentsLoop(CommentsStart, Split(markdownContent), 1))

----------------------------------------------------------------------------
(* Reconciler                                                              *)

\* the for loop of applyMarkdownChanges over the comments from index i
RECURSIVE ChangedComments(_, _, _)
ChangedComments(existingComments, markdownComments, i) ==
    IF i > Len(existingComments) THEN <<>>
    ELSE LET comment == existingComments[i]
             key == comment.filePath \o <<"#", "L">>
                        \o formatLineSpec(comment.startLine, comment.endLine)
         IN  (IF MapHas(markdownComments, key)
                 /\ MapGet(markdownComments, key) # comment.comment
              THEN <<[comment EXCEPT !.comment = MapGet(markdownComments, key)]>>
              ELSE <<>>)
             \o ChangedComments(existingComments, markdownComments, i + 1)

\* a reconciler that returns every comment, with the text of its pair if any
applyMarkdownChanges_KeepAll(existingComments, markdownComments) ==
    LET key(c) == c.filePath \o <<"#", "L">> \o formatLineSpec(c.startLine, c.endLine)
        updatedComments ==
            SeqMap(LAMBDA c : IF MapHas(markdownComments, key(c))
                              THEN [c EXCEPT !.comment = MapGet(markdownComments, key(c))]
                              ELSE c,
                   existingComments)
    IN  [updatedComments |-> updatedComments,
         hasChanges |-> \E i \in 1..Len(existingComments) :
                            updatedComments[i] # existingComments[i]]

applyMarkdownChanges(existingComments, markdownComments) ==
    LET updatedComments == ChangedComments(existingComments, markdownComments, 1)
    IN  [updatedComments |-> updatedComments, hasChanges |-> Len(updatedComments) > 0]

----------------------------------------------------------------------------
(* Inputs                                                                  *)

MaxTextLen == 3

TextChar == {"a", "n", BS, QT, NL}

StringsOver(S, n) == UNION {[1..k -> S] : k \in 0..n}

Text == StringsOver(TextChar, MaxTextLen)

Path == {<<"f">>, <<"g", "#", "L", "2">>}

LineNum == {1, 2, 10}

LineRange == {r \in LineNum \X LineNum : r[1] <= r[2]}

NoFile == [exists |-> FALSE, content |-> <<>>]

NoSync == <<>>

NoOp == [op |-> "none"]

NoUser == [notes |-> <<>>, edits |-> 0]

----------------------------------------------------------------------------
(* The codec pipeline: encode one annotation, then decode the line         *)

CodecInit ==
    /\ pc = "start"
    /\ inp \in [filePath : Path, range : LineRange, comment : Text]
    /\ out = [line |-> <<>>, note |-> NoNote]
    /\ noteFile = NoFile
    /\ markdownFile = NoFile
    /\ isUpdatingFromMarkdown = FALSE
    /\ sync = NoSync
    /\ user = NoUser
    /\ last = NoOp

EncodeLine ==
    /\ pc = "start"
    /\ pc' = "encoded"
    /\ out' = [out EXCEPT !.line =
                 formatNoteLine(inp.filePath, inp.range[1], inp.range[2], inp.comment)]
    /\ UNCHANGED <<inp, noteFile, markdownFile, isUpdatingFromMarkdown, sync, user, last>>

DecodeLine ==
    /\ pc = "encoded"
    /\ pc' = "decoded"
    /\ out' = [out EXCEPT !.note = parseNote(out.line)]
    /\ UNCHANGED <<inp, noteFile, markdownFile, isUpdatingFromMarkdown, sync, user, last>>

CodecNext == EncodeLine \/ DecodeLine

SpecCodec == CodecInit /\ [][CodecNext]_vars

\* C1: for every annotation, decoding the line the store serializer produces
\* for it returns the same filePath, startLine, endLine and text.
C1_RoundTrip ==
    pc = "decoded" =>
        /\ out.note.ok
        /\ out.note.filePath = inp.filePath
        /\ out.note.startLine = inp.range[1]
        /\ out.note.endLine = inp.range[2]
        /\ out.note.comment = inp.comment

\* a backslash of s is immediately followed by a character of S
BackslashBefore(s, S) == \E i \in 1..(Len(s) - 1) : s[i] = BS /\ s[i + 1] \in S

\* C7: a text in which a literal backslash is immediately followed by the
\* letter n or by a quote decodes, after encoding, to the original characters.
C7_EscapedBackslashKept ==
    (pc = "decoded" /\ BackslashBefore(inp.comment, {"n", QT})) =>
        (out.note.ok /\ out.note.comment = inp.comment)

----------------------------------------------------------------------------
(* MemoFileHandler: the update-only synchronisation                        *)

MaxStoreLines == 2

MaxEdits == 1

\* store lines: two records of one key, the second with a text of two
\* lines, a record with columns whose text ends with a space, a line that is
\* no record
MemoLine ==
    { formatNoteLine(<<"f">>, 1, 1, <<"a">>),
      formatNoteLine(<<"f">>, 1, 1, <<"n", NL, "a">>),
      <<"g", "#", "L", "1", ",", "1", "-", "2", ",", "3", SP, QT, "a", SP, QT>>,
      <<"x">> }

\* the text the user types into a section of the document
EditText == { <<QT, "a">> }

\* content of a store file with the given lines, as addComment leaves it
StoreOf(lines) == IF Len(lines) = 0 THEN <<>> ELSE Join(lines) \o <<NL>>

MemoStore == {StoreOf(lines) : lines \in StringsOver(MemoLine, MaxStoreLines)}

\* readComments: no comments when the file does not exist
readComments(file) ==
    IF file.exists THEN parseReviewFileWithErrors(file.content).notes ELSE <<>>

\* an updateComment that writes the start line only
updateComment_StartOnly(content, oldComment, newCommentText) ==
    Join(SeqMap(LAMBDA line :
                    IF Trim(line) = oldComment.raw
                    THEN formatNoteLine(oldComment.filePath, oldComment.startLine,
                                        oldComment.startLine, newCommentText)
                    ELSE line,
                Split(content)))

\* the lines.map of updateComment: the lines equal to oldComment.raw are
\* replaced by the new record
updateComment(content, oldComment, newCommentText) ==
    Join(SeqMap(LAMBDA line :
                    IF Trim(line) = oldComment.raw
                    THEN formatNoteLine(oldComment.filePath, oldComment.startLine,
                                        oldComment.endLine, newCommentText)
                    ELSE line,
                Split(content)))

\* the documents a user can make of the document by one edit: the text of one
\* section changed, the last section removed, one section added
EditedNotes(notes) ==
    {[notes EXCEPT ![i].comment = t] : i \in 1..Len(notes), t \in EditText}
    \cup {SubSeq(notes, 1, Len(notes) - 1) : i \in 1..Min({1, Len(notes)})}
    \cup {Append(notes, [filePath |-> <<"h">>, startLine |-> 1, endLine |-> 1,
                         comment |-> <<"n">>])}

MemoIdle == <<[pc |-> "idle", queue |-> <<>>]>>

MemoInit ==
    /\ pc = "memo"
    /\ inp = <<>>
    /\ out = <<>>
    /\ noteFile \in {[exists |-> TRUE, content |-> c] : c \in MemoStore}
    /\ markdownFile = NoFile
    /\ isUpdatingFromMarkdown = FALSE
    /\ sync = MemoIdle
    /\ user = NoUser
    /\ last = NoOp

\* the command that writes the rendered document of the current store
MemoGenerateMarkdown ==
    /\ sync[1].pc = "idle"
    /\ LET notes == SeqMap(Annotation, readComments(noteFile))
       IN  /\ user' = [user EXCEPT !.notes = notes]
           /\ markdownFile' =
                  [exists |-> TRUE,
                   content |-> generateEnhancedMarkdown(notes, TRUE)]
    /\ UNCHANGED <<pc, inp, out, noteFile, isUpdatingFromMarkdown, sync, last>>

\* the user edits the document and saves it
MemoEditMarkdown ==
    /\ sync[1].pc = "idle"
    /\ markdownFile.exists
    /\ user.edits < MaxEdits
    /\ \E notes \in EditedNotes(user.notes) :
          /\ user' = [notes |-> notes, edits |-> user.edits + 1]
          /\ markdownFile' =
                 [exists |-> TRUE,
                  content |-> generateEnhancedMarkdown(notes, TRUE)]
    /\ UNCHANGED <<pc, inp, out, noteFile, isUpdatingFromMarkdown, sync, last>>

\* markdownWatcher.onDidChange and syncFromMarkdown up to the update loop
MemoSyncFromMarkdown ==
    /\ ~isUpdatingFromMarkdown
    /\ sync[1].pc = "idle"
    /\ markdownFile.exists
    /\ LET existingComments == readComments(noteFile)
           markdownComments == parseMarkdownComments(markdownFile.content)
           result == applyMarkdownChanges(existingComments, markdownComments)
       IN  /\ last' = [op |-> "memoSync", before |-> noteFile.content,
                       markdown |-> markdownFile.content,
                       existingComments |-> existingComments,
                       markdownComments |-> markdownComments,
                       updatedComments |-> result.updatedComments,
                       hasChanges |-> result.hasChanges]
           /\ isUpdatingFromMarkdown' = result.hasChanges
           /\ sync' = IF result.hasChanges
                      THEN <<[pc |-> "updating", queue |-> result.updatedComments]>>
                      ELSE MemoIdle
    /\ UNCHANGED <<pc, inp, out, noteFile, markdownFile, user>>

\* one iteration of the update loop: updateComment reads and rewrites the
\* store, or fails on an I/O error, which it reports and swallows; after the
\* last iteration the guard is released
MemoUpdateComment(ioError) ==
    /\ sync[1].pc = "updating"
    /\ LET updatedComment == Head(sync[1].queue)
       IN  noteFile' = IF ioError \/ ~noteFile.exists THEN noteFile
                       ELSE [noteFile EXCEPT !.content =
                                updateComment(@, updatedComment, updatedComment.comment)]
    /\ IF Len(sync[1].queue) = 1
       THEN sync' = MemoIdle /\ isUpdatingFromMarkdown' = FALSE
       ELSE sync' = <<[pc |-> "updating", queue |-> Tail(sync[1].queue)]>>
            /\ UNCHANGED isUpdatingFromMarkdown
    /\ UNCHANGED <<pc, inp, out, markdownFile, user, last>>

MemoNext ==
    \/ MemoGenerateMarkdown
    \/ MemoEditMarkdown
    \/ MemoSyncFromMarkdown
    \/ \E ioError \in BOOLEAN : MemoUpdateComment(ioError)

SpecMemo == MemoInit /\ [][MemoNext]_vars

\* the identity key of spec section 4.2
IdentityKey(filePath, startLine, endLine) ==
    filePath \o <<"#", "L">> \o
        (IF startLine = endLine THEN NumToStr(startLine)
         ELSE NumToStr(startLine) \o <<"-">> \o NumToStr(endLine))

KeyOf(c) == IdentityKey(c.filePath, c.startLine, c.endLine)

\* C2: reconciling the store with the extraction of its own unedited
\* rendering reports no change and replaces no text.
C2_Idempotent ==
    (/\ last.op = "memoSync"
     /\ last.markdown = generateEnhancedMarkdown(last.existingComments, TRUE))
    => (last.hasChanges = FALSE /\ last.updatedComments = <<>>)

\* the annotations the store decodes to
Stored == SeqMap(Annotation, readComments(noteFile))

\* the annotations before the running or last sync, and what they become
\* when every replacement of that sync is applied
PreSync == SeqMap(Annotation, last.existingComments)

PostSync ==
    SeqMap(LAMBDA c : IF MapHas(last.markdownComments, KeyOf(c))
                      THEN [c EXCEPT !.comment = MapGet(last.markdownComments, KeyOf(c))]
                      ELSE c,
           PreSync)

\* C5: during and after a sync the store holds the complete pre-sync or the
\* complete post-sync annotations, never a mixture.
C5_AllOrNothing ==
    last.op = "memoSync" => Stored \in {PreSync, PostSync}

\* the canonical annotations a sync has to replace: those whose key has an
\* extracted pair with a different text
Replaced ==
    {i \in 1..Len(last.existingComments) :
        /\ MapHas(last.markdownComments, KeyOf(last.existingComments[i]))
        /\ MapGet(last.markdownComments, KeyOf(last.existingComments[i]))
               # last.existingComments[i].comment}

KeysOf(content) ==
    SeqMap(LAMBDA c : <<c.filePath, c.startLine, c.endLine>>,
           parseReviewFileWithErrors(content).notes)

\* C9: during and after the update-only sync the store decodes to the same
\* sequence of (filePath, startLine, endLine) as before the sync.
C9_KeysKept ==
    last.op = "memoSync" => KeysOf(noteFile.content) = KeysOf(last.before)

\* a finished sync that rewrote a record while the document also held a
\* section whose key the store does not have
C9_Witness ==
    /\ last.op = "memoSync"
    /\ sync[1].pc = "idle"
    /\ noteFile.content # last.before
    /\ \E i \in 1..Len(last.markdownComments) :
          \A j \in 1..Len(last.existingComments) :
              last.markdownComments[i].key # KeyOf(last.existingComments[j])

----------------------------------------------------------------------------
(* Document extractor of the full synchronisation: parseMarkdownToNotes    *)

\* parseInt gives NaN for a string that does not start with a digit
NaN == -1

\* parseInt(s, 10) for a string of digits and dashes
parseInt(s) ==
    IF Span(s, 1, Digit) = 0 THEN NaN ELSE StrToNum(SubSeq(s, 1, Span(s, 1, Digit)))

\* parseLineSpec: the note or the error, each as a sequence of at most one
parseLineSpec(filePath, lineSpec, noteText) ==
    LET dash      == IndexOf(lineSpec, 1, "-")
        rest      == From(lineSpec, dash + 1)
        dash2     == IndexOf(rest, 1, "-")
        startStr  == SubSeq(lineSpec, 1, dash - 1)
        endStr    == IF dash2 = 0 THEN rest ELSE SubSeq(rest, 1, dash2 - 1)
        startLine == IF dash > 0 THEN parseInt(startStr) ELSE parseInt(lineSpec)
        endLine   == IF dash > 0 THEN parseInt(endStr) ELSE parseInt(lineSpec)
        Error(message, detail) ==
            [note |-> <<>>, error |-> <<[message |-> message, detail |-> detail]>>]
    IN  IF noteText = <<>>
        THEN Error("Empty note for", filePath \o <<"#", "L">> \o lineSpec)
        ELSE IF dash > 0 /\ (startLine = NaN \/ endLine = NaN)
        THEN Error("Invalid line range", lineSpec)
        ELSE IF dash > 0 /\ (startLine < 0 \/ endLine < 0)
        THEN Error("Line numbers must be non-negative", lineSpec)
        ELSE IF dash > 0 /\ startLine > endLine
        THEN Error("Invalid range (start > end)", lineSpec)
        ELSE IF dash = 0 /\ startLine = NaN
        THEN Error("Invalid line number", lineSpec)
        ELSE IF dash = 0 /\ startLine < 0
        THEN Error("Line number must be non-negative", lineSpec)
        ELSE [note |-> <<[filePath |-> filePath, startLine |-> startLine,
                          endLine |-> endLine, comment |-> noteText]>>,
              error |-> <<>>]

\* the state of the line loop of parseMarkdownToNotes before the first line
NotesStart ==
    [currentFile |-> <<>>, currentLineSpec |-> <<>>, collectingNote |-> FALSE,
     noteLines |-> <<>>, foundSeparator |-> FALSE, notes |-> <<>>, errors |-> <<>>]

\* "Save previous note if exists"
SaveNote(st) ==
    IF st.currentFile # <<>> /\ st.currentLineSpec # <<>> /\ Len(st.noteLines) > 0
    THEN LET parsed == parseLineSpec(st.currentFile, st.currentLineSpec,
                                     Trim(Join(st.noteLines)))
         IN  [st EXCEPT !.notes = @ \o parsed.note, !.errors = @ \o parsed.error]
    ELSE st

\* a line loop that collects the excerpt lines as text
NotesStep_KeepExcerpt(st, lines, i) ==
    LET line     == lines[i]
        nextLine == IF i + 1 <= Len(lines) THEN lines[i + 1] ELSE <<>>
        general  == <<"#", "#", SP, "/">>
    IN  IF ~st.foundSeparator
        THEN [st |-> [st EXCEPT !.foundSeparator = StartsWith(line, <<"-", "-", "-">>)],
              next |-> i + 1]
        ELSE IF line = general \/ StartsWith(line, general \o <<SP>>)
        THEN [st |-> [SaveNote(st) EXCEPT !.currentFile = <<"/">>,
                                          !.currentLineSpec = <<"0">>,
                                          !.collectingNote = TRUE, !.noteLines = <<>>],
              next |-> i + 1]
        ELSE IF FileHeading(line) # <<>>
        THEN [st |-> [SaveNote(st) EXCEPT !.currentFile = FileHeading(line),
                                          !.currentLineSpec = <<>>,
                                          !.collectingNote = FALSE, !.noteLines = <<>>],
              next |-> i + 1]
        ELSE IF LineHeading(line) # <<>> /\ st.currentFile # <<>> /\ st.currentFile # <<"/">>
        THEN [st |-> [SaveNote(st) EXCEPT !.currentLineSpec = LineHeading(line),
                                          !.collectingNote = TRUE, !.noteLines = <<>>],
              next |-> i + 1]
        ELSE IF ~st.collectingNote THEN [st |-> st, next |-> i + 1]
        ELSE IF st.currentFile = <<"/">>
        THEN IF StartsWith(line, <<"#", "#", SP>>)
             THEN [st |-> [SaveNote(st) EXCEPT !.collectingNote = FALSE, !.noteLines = <<>>],
                   next |-> i]
             ELSE [st |-> [st EXCEPT !.noteLines = Append(@, line)], next |-> i + 1]
        ELSE IF line = <<>> /\ (\/ StartsWith(nextLine, <<"#", "#">>)
                               \/ StartsWith(nextLine, <<"#", "#", "#">>))
        THEN [st |-> [SaveNote(st) EXCEPT !.collectingNote = FALSE, !.noteLines = <<>>],
              next |-> i + 1]
        ELSE IF line # <<>> \/ Len(st.noteLines) > 0
        THEN [st |-> [st EXCEPT !.noteLines = Append(@, line)], next |-> i + 1]
        ELSE [st |-> st, next |-> i + 1]

\* one iteration of the line loop of parseMarkdownToNotes: the state after
\* it and the index of the line the next iteration looks at
NotesStep(st, lines, i) ==
    LET line     == lines[i]
        nextLine == IF i + 1 <= Len(lines) THEN lines[i + 1] ELSE <<>>
        general  == <<"#", "#", SP, "/">>
    IN  IF ~st.foundSeparator
        THEN [st |-> [st EXCEPT !.foundSeparator = StartsWith(line, <<"-", "-", "-">>)],
              next |-> i + 1]
        ELSE IF line = general \/ StartsWith(line, general \o <<SP>>)
        THEN [st |-> [SaveNote(st) EXCEPT !.currentFile = <<"/">>,
                                          !.currentLineSpec = <<"0">>,
                                          !.collectingNote = TRUE, !.noteLines = <<>>],
              next |-> i + 1]
        ELSE IF FileHeading(line) # <<>>
        THEN [st |-> [SaveNote(st) EXCEPT !.currentFile = FileHeading(line),
                                          !.currentLineSpec = <<>>,
                                          !.collectingNote = FALSE, !.noteLines = <<>>],
              next |-> i + 1]
        ELSE IF LineHeading(line) # <<>> /\ st.currentFile # <<>> /\ st.currentFile # <<"/">>
        THEN [st |-> [SaveNote(st) EXCEPT !.currentLineSpec = LineHeading(line),
                                          !.collectingNote = TRUE, !.noteLines = <<>>],
              next |-> i + 1]
        ELSE IF ~st.collectingNote THEN [st |-> st, next |-> i + 1]
        ELSE IF st.currentFile = <<"/">>
        THEN IF StartsWith(line, <<"#", "#", SP>>)
             THEN [st |-> [SaveNote(st) EXCEPT !.collectingNote = FALSE, !.noteLines = <<>>],
                   next |-> i]
             ELSE [st |-> [st EXCEPT !.noteLines = Append(@, line)], next |-> i + 1]
        ELSE IF StartsWith(line, <<">", SP>>) THEN [st |-> st, next |-> i + 1]
        ELSE IF line = <<>> /\ (\/ StartsWith(nextLine, <<"#", "#">>)
                               \/ StartsWith(nextLine, <<"#", "#", "#">>))
        THEN [st |-> [SaveNote(st) EXCEPT !.collectingNote = FALSE, !.noteLines = <<>>],
              next |-> i + 1]
        ELSE IF line # <<>> \/ Len(st.noteLines) > 0
        THEN [st |-> [st EXCEPT !.noteLines = Append(@, line)], next |-> i + 1]
        ELSE [st |-> st, next |-> i + 1]

RECURSIVE NotesLoop(_, _, _)
NotesLoop(st, lines, i) ==
    IF i > Len(lines) THEN st
    ELSE LET r == NotesStep(st, lines, i) IN NotesLoop(r.st, lines, r.next)

parseMarkdownToNotes(markdownContent) ==
    LET st == SaveNote(NotesLoop(NotesStart, Split(markdownContent), 1))
    IN  [notes |-> st.notes, errors |-> st.errors]

----------------------------------------------------------------------------
(* NoteFileHandler: the full synchronisation                               *)

MaxSyncs == 2

\* the stores the synchronisation starts from: no record, two records
SyncStore ==
    { StoreOf(<<>>),
      StoreOf(<<formatNoteLine(<<"f">>, 1, 1, <<"a">>),
                formatNoteLine(<<"f">>, 2, 10, <<"n", SP>>)>>) }

\* the documents a user can make of the document by one edit: the text of
\* the first section becomes a backslash followed by the letter n, or a
\* blank, the last section is removed, a section of another file is added
SyncEditedNotes(notes) ==
    {[notes EXCEPT ![i].comment = t] : i \in 1..Min({1, Len(notes)}), t \in {<<BS, "n">>, <<SP>>}}
    \cup {SubSeq(notes, 1, Len(notes) - 1) : i \in 1..Min({1, Len(notes)})}
    \cup {Append(notes, [filePath |-> <<"h">>, startLine |-> 1, endLine |-> 1,
                         comment |-> <<"n">>])}

\* readNotes: no notes when the file does not exist
readNotes(file) ==
    IF file.exists THEN parseNoteFileWithErrors(file.content).notes ELSE <<>>

\* the content replaceAllNotes writes
replaceAllNotes(newNotes) ==
    LET lines == SeqMap(LAMBDA note : formatNoteLine(note.filePath, note.startLine,
                                                     note.endLine, note.comment),
                        newNotes)
    IN  Join(lines) \o (IF Len(lines) > 0 THEN <<NL>> ELSE <<>>)

\* sync holds the running calls of syncFromMarkdown in the order they started
Without(running, i) == SubSeq(running, 1, i - 1) \o SubSeq(running, i + 1, Len(running))

SyncInit ==
    /\ pc = "sync"
    /\ inp = <<>>
    /\ out = <<>>
    /\ noteFile \in {[exists |-> TRUE, content |-> c] : c \in SyncStore}
    /\ markdownFile = NoFile
    /\ isUpdatingFromMarkdown = FALSE
    /\ sync = NoSync
    /\ user = NoUser
    /\ last = NoOp

\* generateAndSaveMarkdown: the document of the current store is written
SyncGenerateMarkdown ==
    /\ LET notes == SeqMap(Annotation, readNotes(noteFile))
       IN  /\ user' = [user EXCEPT !.notes = notes]
           /\ markdownFile' = [exists |-> TRUE,
                               content |-> generateMarkdownFileContent(notes)]
    /\ UNCHANGED <<pc, inp, out, noteFile, isUpdatingFromMarkdown, sync, last>>

\* the user edits the document and saves it
SyncEditMarkdown ==
    /\ markdownFile.exists
    /\ user.edits < MaxEdits
    /\ \E notes \in SyncEditedNotes(user.notes) :
          /\ user' = [notes |-> notes, edits |-> user.edits + 1]
          /\ markdownFile' = [exists |-> TRUE,
                              content |-> generateMarkdownFileContent(notes)]
    /\ UNCHANGED <<pc, inp, out, noteFile, isUpdatingFromMarkdown, sync, last>>

\* a handler that starts a synchronisation whatever the guard says
onDidChange_NoGuard ==
    /\ markdownFile.exists
    /\ Len(sync) < MaxSyncs
    /\ sync' = Append(sync, [pc |-> "access", notes |-> <<>>])
    /\ last' = [op |-> "onDidChange", started |-> TRUE]
    /\ UNCHANGED <<pc, inp, out, noteFile, markdownFile, isUpdatingFromMarkdown, user>>

\* markdownWatcher.onDidChange: the notification is ignored while the guard
\* is set, otherwise a call of syncFromMarkdown starts
onDidChange ==
    /\ markdownFile.exists
    /\ Len(sync) < MaxSyncs
    /\ sync' = IF isUpdatingFromMarkdown THEN sync
               ELSE Append(sync, [pc |-> "access", notes |-> <<>>])
    /\ last' = IF isUpdatingFromMarkdown THEN [op |-> "onDidChange", started |-> FALSE]
               ELSE last
    /\ UNCHANGED <<pc, inp, out, noteFile, markdownFile, isUpdatingFromMarkdown, user>>

\* syncFromMarkdown: fs.access of the document has completed
SyncAccess(i) ==
    /\ sync[i].pc = "access"
    /\ sync' = IF markdownFile.exists THEN [sync EXCEPT ![i].pc = "read"]
               ELSE Without(sync, i)
    /\ UNCHANGED <<pc, inp, out, noteFile, markdownFile, isUpdatingFromMarkdown, user, last>>

\* a synchronisation that writes the notes it extracted whatever the errors
SyncRead_IgnoreErrors(i, ioError) ==
    /\ sync[i].pc = "read"
    /\ LET parsed == parseMarkdownToNotes(markdownFile.content)
       IN  IF ioError \/ ~markdownFile.exists
           THEN /\ sync' = Without(sync, i)
                /\ UNCHANGED <<isUpdatingFromMarkdown, last>>
           ELSE /\ sync' = [sync EXCEPT ![i] = [pc |-> "write", notes |-> parsed.notes]]
                /\ isUpdatingFromMarkdown' = TRUE
                /\ UNCHANGED last
    /\ UNCHANGED <<pc, inp, out, noteFile, markdownFile, user>>

\* syncFromMarkdown: fs.readFile of the document has completed or failed;
\* the document is parsed, and unless it has errors the guard is set and
\* replaceAllNotes starts writing
SyncRead(i, ioError) ==
    /\ sync[i].pc = "read"
    /\ LET parsed == parseMarkdownToNotes(markdownFile.content)
       IN  IF ioError \/ ~markdownFile.exists
           THEN /\ sync' = Without(sync, i)
                /\ UNCHANGED <<isUpdatingFromMarkdown, last>>
           ELSE IF Len(parsed.errors) > 0
           THEN /\ sync' = Without(sync, i)
                /\ last' = [op |-> "syncErrors", errors |-> parsed.errors]
                /\ UNCHANGED isUpdatingFromMarkdown
           ELSE /\ sync' = [sync EXCEPT ![i] = [pc |-> "write", notes |-> parsed.notes]]
                /\ isUpdatingFromMarkdown' = TRUE
                /\ UNCHANGED last
    /\ UNCHANGED <<pc, inp, out, noteFile, markdownFile, user>>

\* a write whose failure leaves the guard set: no finally block
SyncWrite_NoFinally(i, ioError) ==
    /\ sync[i].pc = "write"
    /\ IF ioError
       THEN UNCHANGED <<noteFile, last, isUpdatingFromMarkdown>>
       ELSE /\ noteFile' = [exists |-> TRUE, content |-> replaceAllNotes(sync[i].notes)]
            /\ last' = [op |-> "sync", notes |-> sync[i].notes]
            /\ isUpdatingFromMarkdown' = FALSE
    /\ sync' = Without(sync, i)
    /\ UNCHANGED <<pc, inp, out, markdownFile, user>>

\* syncFromMarkdown: fs.writeFile of replaceAllNotes has completed or
\* failed; the finally block releases the guard
SyncWrite(i, ioError) ==
    /\ sync[i].pc = "write"
    /\ IF ioError
       THEN UNCHANGED <<noteFile, last>>
       ELSE /\ noteFile' = [exists |-> TRUE, content |-> replaceAllNotes(sync[i].notes)]
            /\ last' = [op |-> "sync", notes |-> sync[i].notes]
    /\ isUpdatingFromMarkdown' = FALSE
    /\ sync' = Without(sync, i)
    /\ UNCHANGED <<pc, inp, out, markdownFile, user>>

SyncNext ==
    \/ SyncGenerateMarkdown
    \/ SyncEditMarkdown
    \/ onDidChange
    \/ \E i \in 1..Len(sync) : SyncAccess(i)
    \/ \E i \in 1..Len(sync), ioError \in BOOLEAN : SyncRead(i, ioError)
    \/ \E i \in 1..Len(sync), ioError \in BOOLEAN : SyncWrite(i, ioError)

SpecSync == SyncInit /\ [][SyncNext]_vars

\* the synchronisations between their read of the document and their write
\* of the store
Writing == {i \in 1..Len(sync) : sync[i].pc = "write"}

\* C3: synchronisation requests for the same store are serialized: at most
\* one synchronisation is between its read of the document and its write of
\* the store at any time.
C3_Serialized == Cardinality(Writing) <= 1

\* C4: while the guard isUpdatingFromMarkdown is set for a write-back in
\* progress, a document-change notification is ignored: no synchronisation
\* starts, and the notification changes neither the store nor a
\* synchronisation.
C4_NotificationIgnored ==
    [][isUpdatingFromMarkdown =>
          /\ Len(sync') <= Len(sync)
          /\ onDidChange => UNCHANGED <<noteFile, sync>>]_vars

C4_Witness ==
    /\ isUpdatingFromMarkdown
    /\ Writing # {}
    /\ last = [op |-> "onDidChange", started |-> FALSE]

\* C10: after a successful synchronisation the store decodes to exactly the
\* annotations extracted from the document, in document order.
C10_StoreIsExtracted ==
    last.op = "sync" => SeqMap(Annotation, readNotes(noteFile)) = last.notes

----------------------------------------------------------------------------
(* NoteFileHandler: the commands that add, update and delete one note      *)

MaxOps == 2

\* the texts of the commands
OpText == { <<"a">>, <<QT>>, <<BS, NL>> }

\* addNote: the content written; the content read is empty when the read
\* failed
addNote(content, filePath, startLine, endLine, note) ==
    LET newLine == formatNoteLine(filePath, startLine, endLine, note)
    IN  IF Trim(content) # <<>> THEN Trim(content) \o <<NL>> \o newLine \o <<NL>>
        ELSE newLine \o <<NL>>

\* updateNote: the content written
updateNote(content, oldNote, newNoteText) ==
    Join(SeqMap(LAMBDA line :
                    IF Trim(line) = oldNote.raw
                    THEN formatNoteLine(oldNote.filePath, oldNote.startLine,
                                        oldNote.endLine, newNoteText)
                    ELSE line,
                Split(content)))

\* deleteNote: the content written
deleteNote(content, note) ==
    Join(SelectSeq(Split(content), LAMBDA line : Trim(line) # note.raw))

\* the stores of the commands: those of the synchronisation, and a store
\* saved with the line ending CR LF
OpsStore ==
    SyncStore \cup {formatNoteLine(<<"f">>, 1, 1, <<"a">>) \o <<CR, NL>>}

OpsInit ==
    /\ pc = "ops"
    /\ inp = <<>>
    /\ out = <<>>
    /\ noteFile \in {NoFile} \cup {[exists |-> TRUE, content |-> c] : c \in OpsStore}
    /\ markdownFile = NoFile
    /\ isUpdatingFromMarkdown = FALSE
    /\ sync = <<>>
    /\ user = NoUser
    /\ last = NoOp

\* the command addNote: a failed read of the store is taken for a store
\* that does not exist yet; a failed write is reported
OpsAddNote(filePath, range, note, readError, writeError) ==
    /\ user.edits < MaxOps
    /\ LET readFailed == readError \/ ~noteFile.exists
           content    == IF readFailed THEN <<>> ELSE noteFile.content
       IN  /\ noteFile' = IF writeError THEN noteFile
                          ELSE [exists |-> TRUE,
                                content |-> addNote(content, filePath, range[1],
                                                    range[2], note)]
           /\ last' = [op |-> "addNote", readFailed |-> readFailed,
                       writeFailed |-> writeError, before |-> noteFile,
                       note |-> [filePath |-> filePath, startLine |-> range[1],
                                 endLine |-> range[2], comment |-> note]]
    /\ user' = [user EXCEPT !.edits = @ + 1]
    /\ UNCHANGED <<pc, inp, out, markdownFile, isUpdatingFromMarkdown, sync>>

\* the command updateNote on a note read from the store: a failed read or
\* write is reported
OpsUpdateNote(k, newNoteText, readError, writeError) ==
    /\ user.edits < MaxOps
    /\ k \in 1..Len(readNotes(noteFile))
    /\ LET readFailed == readError \/ ~noteFile.exists
       IN  /\ noteFile' = IF readFailed \/ writeError THEN noteFile
                          ELSE [noteFile EXCEPT !.content =
                                   updateNote(@, readNotes(noteFile)[k], newNoteText)]
           /\ last' = [op |-> "updateNote", readFailed |-> readFailed,
                       writeFailed |-> writeError, before |-> noteFile,
                       k |-> k, text |-> newNoteText]
    /\ user' = [user EXCEPT !.edits = @ + 1]
    /\ UNCHANGED <<pc, inp, out, markdownFile, isUpdatingFromMarkdown, sync>>

\* the command deleteNote on a note read from the store
OpsDeleteNote(k, readError, writeError) ==
    /\ user.edits < MaxOps
    /\ k \in 1..Len(readNotes(noteFile))
    /\ LET readFailed == readError \/ ~noteFile.exists
       IN  /\ noteFile' = IF readFailed \/ writeError THEN noteFile
                          ELSE [noteFile EXCEPT !.content =
                                   deleteNote(@, readNotes(noteFile)[k])]
           /\ last' = [op |-> "deleteNote", readFailed |-> readFailed,
                       writeFailed |-> writeError, before |-> noteFile, k |-> k]
    /\ user' = [user EXCEPT !.edits = @ + 1]
    /\ UNCHANGED <<pc, inp, out, markdownFile, isUpdatingFromMarkdown, sync>>

\* a full synchronisation that succeeds: replaceAllNotes writes the notes
\* extracted from the document
OpsReplaceAllNotes(newNotes) ==
    /\ user.edits < MaxOps
    /\ noteFile' = [exists |-> TRUE, content |-> replaceAllNotes(newNotes)]
    /\ last' = [op |-> "replaceAllNotes", readFailed |-> FALSE, writeFailed |-> FALSE,
                before |-> noteFile, notes |-> newNotes]
    /\ user' = [user EXCEPT !.edits = @ + 1]
    /\ UNCHANGED <<pc, inp, out, markdownFile, isUpdatingFromMarkdown, sync>>

OpsNext ==
    \/ \E filePath \in {<<"f">>, <<SP, "f">>}, range \in {<<1, 1>>, <<3, 4>>}, note \in OpText,
          readError \in BOOLEAN, writeError \in BOOLEAN :
          OpsAddNote(filePath, range, note, readError, writeError)
    \/ \E k \in 1..(MaxStoreLines + MaxOps), newNoteText \in OpText,
          readError \in BOOLEAN, writeError \in BOOLEAN :
          OpsUpdateNote(k, newNoteText, readError, writeError)
    \/ \E k \in 1..(MaxStoreLines + MaxOps),
          readError \in BOOLEAN, writeError \in BOOLEAN :
          OpsDeleteNote(k, readError, writeError)
    \/ \E newNotes \in StringsOver({[filePath |-> <<"f">>, startLine |-> 1, endLine |-> 2,
                                      comment |-> t] : t \in OpText}, 1) :
          OpsReplaceAllNotes(newNotes)

SpecOps == OpsInit /\ [][OpsNext]_vars

\* C6: when the store exists but cannot be read, addNote, updateNote and
\* deleteNote leave the store unmodified.
C6_ReadFailureKeepsStore ==
    (/\ last.op \in {"addNote", "updateNote", "deleteNote"}
     /\ last.readFailed /\ last.before.exists) => noteFile = last.before

----------------------------------------------------------------------------
(* The store decoder: parseNoteFileWithErrors on a whole store             *)

MaxFileLines == 3

\* store lines: a record, a record whose range runs backwards, a record of
\* line 0, a record of line 0 of the path "/", an empty line, a line of
\* one blank, a line that is no record
FileLine ==
    { <<"f", "#", "L", "1", SP, QT, "a", QT>>,
      <<"f", "#", "L", "2", "-", "1", SP, QT, "a", QT>>,
      <<"f", "#", "L", "0", SP, QT, "a", QT>>,
      <<"/", "#", "L", "0", SP, QT, "a", QT>>,
      <<>>,
      <<SP>>,
      <<"x">> }

DecodeInit ==
    /\ pc = "file"
    /\ inp \in {[content |-> Join(lines)] :
                    lines \in StringsOver(FileLine, MaxFileLines) \ {<<>>}}
    /\ out = <<>>
    /\ noteFile = NoFile
    /\ markdownFile = NoFile
    /\ isUpdatingFromMarkdown = FALSE
    /\ sync = NoSync
    /\ user = NoUser
    /\ last = NoOp

\* the store content is decoded
DecodeFile ==
    /\ pc = "file"
    /\ pc' = "decodedFile"
    /\ out' = parseNoteFileWithErrors(inp.content)
    /\ UNCHANGED <<inp, noteFile, markdownFile, isUpdatingFromMarkdown, sync, user, last>>

DecodeNext == DecodeFile

SpecDecode == DecodeInit /\ [][DecodeNext]_vars

\* C13: a decoded record never has startLine > endLine, and has line 0 only
\* for the path "/".
C13_RangeValidated ==
    pc = "decodedFile" =>
        \A k \in 1..Len(out.notes) :
            /\ out.notes[k].startLine <= out.notes[k].endLine
            /\ out.notes[k].startLine = 0 => out.notes[k].filePath = <<"/">>

\* the lines of the decoded content, and those that are not blank
FileLines == Split(inp.content)

NonBlankLines == {i \in 1..Len(FileLines) : Trim(FileLines[i]) # <<>>}

\* C14: blank lines yield nothing, every other line yields one record or one
\* error; records keep the input order and are decoded each from its own
\* line; every error carries the 1-based number and the content of its line.
C14_FilePartitioned ==
    pc = "decodedFile" =>
        /\ Len(out.notes) + Len(out.errors) = Cardinality(NonBlankLines)
        /\ SeqMap(LAMBDA n : n.raw, out.notes)
               = SelectSeq(FileLines,
                           LAMBDA l : Trim(l) # <<>> /\ noteLineRegex(l).ok)
        /\ \A k \in 1..Len(out.notes) : out.notes[k] = parseNote(out.notes[k].raw)
        /\ \A k \in 1..Len(out.errors) :
              /\ out.errors[k].line \in NonBlankLines
              /\ out.errors[k].content = FileLines[out.errors[k].line]
              /\ ~noteLineRegex(FileLines[out.errors[k].line]).ok
              /\ k > 1 => out.errors[k - 1].line < out.errors[k].line

\* a store of three lines decoded: a blank line, a line that is no record,
\* a record
C14_Witness ==
    /\ pc = "decodedFile"
    /\ Len(FileLines) = 3
    /\ Trim(FileLines[1]) = <<>>
    /\ Len(out.errors) = 1 /\ out.errors[1].line = 2
    /\ Len(out.notes) = 1

----------------------------------------------------------------------------
(* The excerpt formatter: generateCodePreview on a range of a file          *)

MaxCodeLines == 2

TAB == "\t"

\* the lines of the file: indented by spaces, by a tab, by both, empty, and
\* of whitespace only
CodeLine ==
    { <<"a">>, <<SP, "a">>, <<SP, SP, "a", SP>>, <<TAB, "a">>, <<SP, TAB, "a">>,
      <<>>, <<SP, SP>>, <<TAB>> }

ExcerptInit ==
    /\ pc = "range"
    /\ inp \in {[fileLines |-> f, startLine |-> r[1], endLine |-> r[2]] :
                    f \in StringsOver(CodeLine, MaxCodeLines) \ {<<>>},
                    r \in {q \in (1..MaxCodeLines) \X (1..(MaxCodeLines + 1)) :
                                q[1] <= q[2]}}
    /\ out = <<>>
    /\ noteFile = NoFile
    /\ markdownFile = NoFile
    /\ isUpdatingFromMarkdown = FALSE
    /\ sync = NoSync
    /\ user = NoUser
    /\ last = NoOp

\* the excerpt of the range is formatted
FormatExcerpt ==
    /\ pc = "range"
    /\ pc' = "excerpt"
    /\ out' = generateCodePreview(inp.fileLines, inp.startLine, inp.endLine)
    /\ UNCHANGED <<inp, noteFile, markdownFile, isUpdatingFromMarkdown, sync, user, last>>

ExcerptNext == FormatExcerpt

SpecExcerpt == ExcerptInit /\ [][ExcerptNext]_vars

\* the collected lines of the range, and what the excerpt shows of each
\* after the line number
Collected == [k \in 1..Len(out) |-> inp.fileLines[inp.startLine + k - 1]]

Shown ==
    [k \in 1..Len(out) |->
        From(out[k], 5 + Len(NumToStr(Min({inp.endLine, Len(inp.fileLines)}))))]

\* the part of the collected line k that the excerpt does not show
Removed(k) == SubSeq(Collected[k], 1, Len(Collected[k]) - Len(Shown[k]))

\* the indentation columns of characters
Columns(s) == Cardinality({i \in 1..Len(s) : s[i] = SP})
                  + 4 * Cardinality({i \in 1..Len(s) : s[i] = TAB})

Blank(line) == \A i \in 1..Len(line) : line[i] \in Space

\* the minimum indentation of the non-blank collected lines
BlockMin ==
    LET indents == {LeadingIndent(Collected[k]) :
                        k \in {j \in 1..Len(out) : ~Blank(Collected[j])}}
    IN  IF indents = {} THEN 0 ELSE Min(indents)

\* C19 as stated: every collected line, those of whitespace only included,
\* loses the block's minimum indentation (or all of its indentation when it
\* has less).
C19_EveryLineStripped ==
    pc = "excerpt" =>
        \A k \in 1..Len(out) :
            /\ Collected[k] = Removed(k) \o Shown[k]
            /\ Columns(Removed(k)) >= Min({BlockMin, LeadingIndent(Collected[k])})

\* C19: every non-blank collected line loses the shortest run of leading
\* whitespace that counts at least the block's minimum indentation; a
\* collected line of whitespace only is shown unchanged.
C19_NonBlankStripped ==
    pc = "excerpt" =>
        \A k \in 1..Len(out) :
            /\ Collected[k] = Removed(k) \o Shown[k]
            /\ Blank(Collected[k]) => Shown[k] = Collected[k]
            /\ ~Blank(Collected[k]) =>
                  /\ Blank(Removed(k))
                  /\ Columns(Removed(k)) >= BlockMin
                  /\ Removed(k) # <<>> =>
                        Columns(SubSeq(Removed(k), 1, Len(Removed(k)) - 1)) < BlockMin

\* an excerpt of a block with a positive minimum indentation and a line of
\* whitespace only
C19_Witness ==
    /\ pc = "excerpt"
    /\ BlockMin > 0
    /\ \E k \in 1..Len(out) : Blank(Collected[k]) /\ Collected[k] # <<>>
    /\ \E k \in 1..Len(out) : ~Blank(Collected[k]) /\ Removed(k) # <<>>

\* C20: for a non-blank collected line the removed columns r satisfy
\* m <= r <= m + 3, r > m only when the last removed character is a tab,
\* and only whitespace is removed.
C20_BoundedOverRemoval ==
    pc = "excerpt" =>
        \A k \in 1..Len(out) :
            ~Blank(Collected[k]) =>
                /\ Collected[k] = Removed(k) \o Shown[k]
                /\ \A i \in 1..Len(Removed(k)) : Removed(k)[i] \in {SP, TAB}
                /\ BlockMin <= Columns(Removed(k))
                /\ Columns(Removed(k)) <= BlockMin + 3
                /\ Columns(Removed(k)) > BlockMin =>
                      Removed(k)[Len(Removed(k))] = TAB

\* an excerpt where a tab straddles the cut: more columns removed than the
\* minimum
C20_Witness ==
    /\ pc = "excerpt"
    /\ \E k \in 1..Len(out) :
          /\ ~Blank(Collected[k])
          /\ BlockMin > 0
          /\ Columns(Removed(k)) > BlockMin

----------------------------------------------------------------------------
(* The document pipeline: a document, rendered from notes or edited by     *)
(* hand, is extracted                                                      *)

MaxDocLines == 4

MaxNotes == 2

\* the lines of an edited document under the file heading of f: range
\* headings of line 1 and of line 0, a text line, an empty line, an excerpt
\* line, a heading of the text itself
DocLine ==
    { <<"#", "#", "#", SP, "[", "L", "1", "]", "(", "f", "#", "L", "1", ")">>,
      <<"#", "#", "#", SP, "[", "L", "0", "]", "(", "f", "#", "L", "0", ")">>,
      <<"a">>,
      <<>>,
      <<">", SP, "1", ":", SP, "a">>,
      <<"#", "#", "#", "#", SP, "h">> }

\* the notes a document is rendered from; the path [i] has brackets of
\* its own
DocNote ==
    {[filePath |-> f, startLine |-> r[1], endLine |-> r[2], comment |-> <<"a">>] :
        f \in {<<"f">>, <<"[", "i", "]">>}, r \in {<<1, 1>>, <<1, 2>>, <<2, 2>>}}

\* the preamble of generateMarkdownFileContent
Preamble == PreambleHead \o Now \o PreambleTail

ExtractInit ==
    /\ \/ /\ pc = "notes"
          /\ inp \in {[kind |-> "notes", notes |-> ns, body |-> <<>>] :
                          ns \in StringsOver(DocNote, MaxNotes)}
          /\ markdownFile = NoFile
       \/ /\ pc = "document"
          /\ inp \in {[kind |-> "lines", notes |-> <<>>,
                       body |-> Join(<< <<"#", "#", SP, "[", "f", "]", "(", "f", ")">> >> \o ls)] :
                          ls \in StringsOver(DocLine, MaxDocLines) \ {<<>>}}
          /\ \E showMarkdownPreamble \in BOOLEAN :
                markdownFile =
                    [exists |-> TRUE,
                     content |-> (IF showMarkdownPreamble THEN Preamble ELSE <<>>) \o inp.body]
    /\ out = <<>>
    /\ noteFile = NoFile
    /\ isUpdatingFromMarkdown = FALSE
    /\ sync = NoSync
    /\ user = NoUser
    /\ last = NoOp

\* the document of the notes is generated, with the preamble or without
RenderDocument ==
    /\ pc = "notes"
    /\ pc' = "document"
    /\ \E showMarkdownPreamble \in BOOLEAN :
          markdownFile' =
              [exists |-> TRUE,
               content |-> IF showMarkdownPreamble
                           THEN generateMarkdownFileContent(inp.notes)
                           ELSE generateEnhancedMarkdown(inp.notes, TRUE)]
    /\ UNCHANGED <<inp, out, noteFile, isUpdatingFromMarkdown, sync, user, last>>

\* the notes of the document are extracted
ExtractNotes ==
    /\ pc = "document"
    /\ pc' = "extracted"
    /\ out' = parseMarkdownToNotes(markdownFile.content)
    /\ UNCHANGED <<inp, noteFile, markdownFile, isUpdatingFromMarkdown, sync, user, last>>

\* the comment map of the document is extracted
ExtractComments ==
    /\ pc = "document"
    /\ pc' = "comments"
    /\ out' = parseMarkdownComments(markdownFile.content)
    /\ UNCHANGED <<inp, noteFile, markdownFile, isUpdatingFromMarkdown, sync, user, last>>

ExtractNext == RenderDocument \/ ExtractNotes \/ ExtractComments

SpecExtract == ExtractInit /\ [][ExtractNext]_vars

\* the lines of the document after its preamble
BodyLines ==
    Split(IF inp.kind = "notes" THEN generateEnhancedMarkdown(inp.notes, TRUE) ELSE inp.body)

\* the document has its preamble
HasPreamble == StartsWith(markdownFile.content, PreambleHead)

\* the first line after the range heading at i that is a heading, or
\* Len + 1
SectionEnd(i) ==
    LET ends == {j \in (i + 1)..Len(BodyLines) : StartsWith(BodyLines[j], <<"#", "#">>)}
    IN  IF ends = {} THEN Len(BodyLines) + 1 ELSE Min(ends)

\* C11: a range heading followed by blank lines only, up to the next
\* heading or the end of the document, gives an error that names its key.
C11_EmptyBodyRejected ==
    (pc = "extracted" /\ inp.kind = "lines" /\ HasPreamble) =>
        \A i \in 1..Len(BodyLines) :
            (/\ LineHeading(BodyLines[i]) # <<>>
             /\ \A j \in (i + 1)..(SectionEnd(i) - 1) : Trim(BodyLines[j]) = <<>>)
            => \E k \in 1..Len(out.errors) :
                  /\ out.errors[k].message = "Empty note for"
                  /\ out.errors[k].detail
                        = <<"f", "#", "L">> \o LineHeading(BodyLines[i])

\* C12: every extracted pair of a path other than "/" has
\* 1 <= startLine <= endLine.
C12_RangeValidated ==
    pc = "extracted" =>
        \A k \in 1..Len(out.notes) :
            out.notes[k].filePath # <<"/">> =>
                /\ 1 <= out.notes[k].startLine
                /\ out.notes[k].startLine <= out.notes[k].endLine

\* C15: every note of a rendered document has its identity key among the
\* keys extracted from the document.
C15_KeysAgree ==
    (pc = "comments" /\ inp.kind = "notes") =>
        \A k \in 1..Len(inp.notes) : MapHas(out, KeyOf(inp.notes[k]))

\* the lines a section has a heading at
IsHeading(line) == FileHeading(line) # <<>> \/ LineHeading(line) # <<>>

\* where the text of the range heading at i stops: at the next heading or
\* at the empty line before a line of ##, or Len + 1
CollectEnd(i) ==
    LET ends == {j \in (i + 1)..Len(BodyLines) :
                    \/ IsHeading(BodyLines[j])
                    \/ /\ BodyLines[j] = <<>>
                       /\ j < Len(BodyLines)
                       /\ StartsWith(BodyLines[j + 1], <<"#", "#">>)}
    IN  IF ends = {} THEN Len(BodyLines) + 1 ELSE Min(ends)

RECURSIVE DropLeadingEmpty(_)
DropLeadingEmpty(ls) ==
    IF ls # <<>> /\ ls[1] = <<>> THEN DropLeadingEmpty(Tail(ls)) ELSE ls

\* the text of the range heading at i: its lines without the excerpt lines
\* and without leading empty lines
SectionBody(i) ==
    Trim(Join(DropLeadingEmpty(
        SelectSeq(SubSeq(BodyLines, i + 1, CollectEnd(i) - 1),
                  LAMBDA l : ~StartsWith(l, <<">", SP>>)))))

\* C16: the extracted texts are, in order, the texts of the range sections
\* that have one; no text starts with a blank line and none has an excerpt
\* line.
C16_BodyCollected ==
    (pc = "extracted" /\ HasPreamble) =>
        /\ SeqMap(LAMBDA n : n.comment, out.notes)
              = SeqMap(LAMBDA i : SectionBody(i),
                       SelectSeq([i \in 1..Len(BodyLines) |-> i],
                                 LAMBDA i : /\ LineHeading(BodyLines[i]) # <<>>
                                            /\ SectionBody(i) # <<>>))
        /\ \A k \in 1..Len(out.notes) :
              /\ Trim(Split(out.notes[k].comment)[1]) # <<>>
              /\ \A j \in 1..Len(Split(out.notes[k].comment)) :
                    ~StartsWith(Split(out.notes[k].comment)[j], <<">", SP>>)

\* a text extracted from a section with a leading empty line and an
\* excerpt line
C16_Witness ==
    /\ pc = "extracted" /\ HasPreamble
    /\ \E i \in 1..Len(BodyLines) :
          /\ LineHeading(BodyLines[i]) # <<>>
          /\ i + 1 < CollectEnd(i)
          /\ BodyLines[i + 1] = <<>>
          /\ \E j \in (i + 1)..(CollectEnd(i) - 1) : StartsWith(BodyLines[j], <<">", SP>>)
          /\ SectionBody(i) # <<>>
          /\ \E k \in 1..Len(out.notes) : out.notes[k].comment = SectionBody(i)

\* C17: the extraction of a document does not depend on its preamble: it
\* is the extraction of the same body under the generated preamble.
C17_PreambleIgnored ==
    pc = "extracted" => out = parseMarkdownToNotes(Preamble \o Join(BodyLines))

\* the lines of the whole document
DocumentLines == Split(markdownFile.content)

\* C18: the document of no notes is the placeholder line, with no heading,
\* and its extraction has no note and no error.
C18_PlaceholderEmpty ==
    (inp.kind = "notes" /\ inp.notes = <<>> /\ pc # "notes") =>
        /\ Len(BodyLines) = 1
        /\ DocumentLines[Len(DocumentLines)] = BodyLines[1]
        /\ \A j \in 1..Len(DocumentLines) : ~StartsWith(DocumentLines[j], <<"#", "#">>)
        /\ pc = "extracted" => out.notes = <<>> /\ out.errors = <<>>
        /\ pc = "comments" => out = <<>>

\* the document of no notes, with its preamble, extracted
C18_Witness ==
    /\ pc = "extracted" /\ HasPreamble
    /\ inp.kind = "notes" /\ inp.notes = <<>>
    /\ Len(DocumentLines) > 1

----------------------------------------------------------------------------
(* Further properties of the excerpt formatter                             *)

\* the non-blank collected lines
NonBlankCollected == {k \in 1..Len(out) : ~Blank(Collected[k])}

\* no collected line has a tab
SpaceIndented == \A k \in 1..Len(out) : \A i \in 1..Len(Collected[k]) : Collected[k][i] # TAB

\* C21: in a block without tabs every non-blank line loses exactly the
\* minimum indentation of the non-blank lines, as leading spaces; the
\* differences of indentation are kept and some non-blank line starts at
\* column 0.
C21_IndentNormalized ==
    (pc = "excerpt" /\ SpaceIndented) =>
        /\ \A k \in NonBlankCollected :
              /\ Removed(k) = [i \in 1..BlockMin |-> SP]
              /\ Collected[k] = Removed(k) \o Shown[k]
              /\ LeadingIndent(Shown[k]) = LeadingIndent(Collected[k]) - BlockMin
        /\ NonBlankCollected # {} =>
              \E k \in NonBlankCollected : LeadingIndent(Shown[k]) = 0

\* an excerpt of two non-blank lines of different indentation, both indented
C21_Witness ==
    /\ pc = "excerpt" /\ SpaceIndented
    /\ BlockMin > 0
    /\ \E k, l \in NonBlankCollected :
          /\ LeadingIndent(Collected[k]) < LeadingIndent(Collected[l])
          /\ LeadingIndent(Shown[k]) = 0
          /\ LeadingIndent(Shown[l]) > 0

----------------------------------------------------------------------------
(* The order of the rendered document                                      *)

\* the heading lines the renderer writes for a path and for a note
FileHeadingOf(filePath) ==
    <<"#", "#", SP, "[">> \o filePath \o <<"]", "(">> \o filePath \o <<")">>

RangeHeadingOf(n) ==
    <<"#", "#", "#", SP, "[", "L">> \o formatLineSpec(n.startLine, n.endLine)
        \o <<"]", "(">> \o n.filePath \o <<"#", "L">> \o NumToStr(n.startLine) \o <<")">>

NotePaths == {inp.notes[k].filePath : k \in 1..Len(inp.notes)}

NotesOf(filePath) == {k \in 1..Len(inp.notes) : inp.notes[k].filePath = filePath}

\* the positions of the file headings in the document, and of the range
\* headings in the section of the file heading at i
FileHeadingsAt == {i \in 1..Len(DocumentLines) : StartsWith(DocumentLines[i], <<"#", "#", SP>>)}

RangeHeadingsAt(i) ==
    {j \in (i + 1)..Len(DocumentLines) :
        /\ StartsWith(DocumentLines[j], <<"#", "#", "#", SP>>)
        /\ \A h \in FileHeadingsAt : ~(i < h /\ h < j)}

----------------------------------------------------------------------------
(* Further properties of the commands on the store                         *)

\* the annotations of a store
AnnotationsOf(file) == SeqMap(Annotation, readNotes(file))

\* the last command read and wrote the store
Done(op) == last.op = op /\ ~last.readFailed /\ ~last.writeFailed

\* C23: after updateNote of a note read from the store the store decodes
\* to the previous annotations with the text of that note replaced; after
\* deleteNote it decodes to the previous annotations without that note.
C23_ExactMatchHits ==
    /\ Done("updateNote") =>
          AnnotationsOf(noteFile)
              = [i \in 1..Len(AnnotationsOf(last.before)) |->
                    IF i = last.k
                    THEN [AnnotationsOf(last.before)[i] EXCEPT !.comment = last.text]
                    ELSE AnnotationsOf(last.before)[i]]
    /\ Done("deleteNote") =>
          AnnotationsOf(noteFile)
              = SubSeq(AnnotationsOf(last.before), 1, last.k - 1)
                    \o SubSeq(AnnotationsOf(last.before), last.k + 1,
                              Len(AnnotationsOf(last.before)))

\* the contents of the lines of a store that do not decode
ErrorsOf(file) ==
    IF file.exists
    THEN SeqMap(LAMBDA e : e.content, parseNoteFileWithErrors(file.content).errors)
    ELSE <<>>

\* C26: after addNote on a store that was read, the store decodes to the
\* previous annotations followed by the new one, and to the previous lines
\* in error; on a store that does not exist, to the new annotation alone.
C26_AddNoteAppends ==
    (last.op = "addNote" /\ ~last.writeFailed) =>
        /\ (last.before.exists /\ ~last.readFailed) =>
              /\ AnnotationsOf(noteFile) = Append(AnnotationsOf(last.before), last.note)
              /\ ErrorsOf(noteFile) = ErrorsOf(last.before)
        /\ ~last.before.exists =>
              AnnotationsOf(noteFile) = <<last.note>> /\ ErrorsOf(noteFile) = <<>>

----------------------------------------------------------------------------
(* Further properties of the full synchronisation                          *)

\* the bag of the elements of a sequence
BagOf(seq) == [x \in {seq[i] : i \in 1..Len(seq)} |->
                 Cardinality({i \in 1..Len(seq) : seq[i] = x})]

\* C24: a synchronisation of the document as it was generated, without an
\* edit, leaves the bag of the stored annotations as it was.
C24_UneditedSyncKeepsNotes ==
    (last.op = "sync" /\ user.edits = 0 /\ pc = "sync") =>
        BagOf(SeqMap(Annotation, readNotes(noteFile))) = BagOf(user.notes)

\* the document has errors
DocumentHasErrors ==
    markdownFile.exists /\ Len(parseMarkdownToNotes(markdownFile.content).errors) > 0

SyncFairInit == SyncInit /\ noteFile.content = StoreOf(<<>>)

SpecSyncFair ==
    /\ SyncFairInit
    /\ [][SyncNext]_vars
    /\ WF_vars(\E i \in 1..Len(sync), ioError \in BOOLEAN : SyncWrite(i, ioError))

\* C29: the guard is released: it is set only while a synchronisation is
\* writing, a set guard is eventually cleared, and a notification that
\* finds the guard clear starts a synchronisation.
C29_GuardReleased ==
    /\ [](isUpdatingFromMarkdown => Writing # {})
    /\ isUpdatingFromMarkdown ~> ~isUpdatingFromMarkdown
    /\ [][(onDidChange /\ ~isUpdatingFromMarkdown) =>
             (Len(sync') = Len(sync) + 1 /\ sync'[Len(sync')].pc = "access")]_vars

\* no synchronisation is running after one has written the store, and the
\* guard is clear
C29_Witness ==
    /\ pc = "sync"
    /\ ~isUpdatingFromMarkdown
    /\ sync = <<>>
    /\ last.op = "sync"
    /\ markdownFile.exists

\* the non-blank lines of the store
StoreLines ==
    SelectSeq(Split(noteFile.content), LAMBDA line : Trim(line) # <<>>)

\* C30: every non-blank line of the store decodes to a record, and the
\* commands write one line for each annotation: addNote adds one record,
\* a full rewrite leaves as many records as it was given notes.
C30_StoreWellFormed ==
    (pc = "ops" /\ noteFile.exists) =>
        /\ ErrorsOf(noteFile) = <<>>
        /\ \A i \in 1..Len(StoreLines) : noteLineRegex(StoreLines[i]).ok
        /\ Len(readNotes(noteFile)) = Len(StoreLines)
        /\ (last.op = "addNote" /\ ~last.writeFailed /\ ~last.readFailed) =>
              Len(StoreLines) = Len(readNotes(last.before)) + 1
        /\ (last.op = "addNote" /\ ~last.writeFailed /\ last.readFailed) =>
              Len(StoreLines) = 1
        /\ last.op = "replaceAllNotes" => Len(StoreLines) = Len(last.notes)

\* a store of two records after addNote of a text that has a backslash and
\* a newline
C30_Witness ==
    /\ pc = "ops" /\ noteFile.exists
    /\ last.op = "addNote" /\ ~last.writeFailed /\ ~last.readFailed
    /\ last.note.comment = <<BS, NL>>
    /\ Len(StoreLines) = 2

----------------------------------------------------------------------------
(* CodeLens: the lenses of a document and the commands they run            *)

\* the notes of the store: of the open document f, of another file, and a
\* general note
LensNote ==
    {[filePath |-> <<"f">>, startLine |-> r[1], endLine |-> r[2], comment |-> t] :
        r \in {<<1, 1>>, <<1, 2>>, <<2, 2>>}, t \in {<<"a">>, <<"n">>}}
    \cup {[filePath |-> <<"g">>, startLine |-> 1, endLine |-> 1, comment |-> <<"a">>],
          [filePath |-> <<"/">>, startLine |-> 0, endLine |-> 0, comment |-> <<"a">>]}

\* provideCodeLenses: the argument of the commands of each lens, with the
\* note the lens is shown for
provideCodeLenses(notes, relativePath) ==
    SeqMap(LAMBDA note : [line |-> note.startLine, note |-> Annotation(note)],
           SelectSeq(notes, LAMBDA note : /\ note.filePath = relativePath
                                          /\ ~(note.filePath = <<"/">> \/ note.startLine = 0)))

\* findNoteAtLine: notes.find(...), a sequence of at most one note
findNoteAtLine(notes, relativePath, line) ==
    LET found == SelectSeq(notes, LAMBDA c : /\ c.filePath = relativePath
                                             /\ line >= c.startLine /\ line <= c.endLine)
    IN  IF found = <<>> THEN <<>> ELSE <<Annotation(found[1])>>

LensInit ==
    /\ pc = "document f"
    /\ inp = <<>>
    /\ out = <<>>
    /\ noteFile \in {[exists |-> TRUE, content |-> replaceAllNotes(ns)] :
                        ns \in StringsOver(LensNote, MaxNotes)}
    /\ markdownFile = NoFile
    /\ isUpdatingFromMarkdown = FALSE
    /\ sync = NoSync
    /\ user = NoUser
    /\ last = NoOp

\* the lenses of the document f are provided
LensProvide ==
    /\ pc = "document f"
    /\ pc' = "lenses"
    /\ out' = provideCodeLenses(readNotes(noteFile), <<"f">>)
    /\ UNCHANGED <<inp, noteFile, markdownFile, isUpdatingFromMarkdown, sync, user, last>>

\* editNoteAtLine / deleteNoteAtLine of the lens k: the note is looked up
LensCommand(k) ==
    /\ pc = "lenses"
    /\ k \in 1..Len(out)
    /\ pc' = "found"
    /\ inp' = out[k]
    /\ out' = findNoteAtLine(readNotes(noteFile), <<"f">>, out[k].line)
    /\ UNCHANGED <<noteFile, markdownFile, isUpdatingFromMarkdown, sync, user, last>>

LensNext == LensProvide \/ \E k \in 1..MaxNotes : LensCommand(k)

SpecLens == LensInit /\ [][LensNext]_vars

\* C27: the command of a lens finds the note the lens is shown for.
C27_LensFindsItsNote ==
    pc = "found" => out = <<inp.note>>

----------------------------------------------------------------------------
(* TempFileManager: the sessions of one temporary file                     *)
(*                                                                         *)
(* sync holds the maps of the manager for the path of the file: the        *)
(* session whose callback is in tempFileCallbacks and the session whose    *)
(* disposables are in tempFileWatchers (0: no entry).  inp holds the       *)
(* editor: whether the file exists and is visible, the sessions whose      *)
(* listeners are registered and not disposed, the sessions opened and the  *)
(* events of the user.  user holds the listeners that are running, out the *)
(* number of calls of the callback of each session.                        *)

MaxSessions == 2

MaxEvents == 2

TempInit ==
    /\ pc = "temp"
    /\ sync = [tempFileCallbacks |-> 0, tempFileWatchers |-> 0]
    /\ inp = [fileExists |-> FALSE, visible |-> FALSE, listeners |-> {},
              opened |-> 0, events |-> 0]
    /\ user = {}
    /\ out = [s \in 1..MaxSessions |-> 0]
    /\ noteFile = NoFile
    /\ markdownFile = NoFile
    /\ isUpdatingFromMarkdown = FALSE
    /\ last = NoOp

\* the callback in tempFileCallbacks is called once more for each listener
\* in callers
Called(callers) ==
    [s \in 1..MaxSessions |->
        IF s = sync.tempFileCallbacks THEN out[s] + Cardinality(callers) ELSE out[s]]

\* the listeners that start when the editors of the file are gone: the
\* visibility listeners when a callback is stored, the close listeners
\* when the document is closed and the session is older than a second
Closing(documentClosed) ==
    {[kind |-> "visibility", session |-> s] :
        s \in IF sync.tempFileCallbacks # 0 THEN inp.listeners ELSE {}}
    \cup {[kind |-> "close", session |-> s] :
        s \in IF documentClosed THEN inp.listeners ELSE {}}

\* openTempFile: the file is written and shown, the callback and the
\* disposables of the session replace the entries of the path
OpenTempFile ==
    /\ inp.opened < MaxSessions
    /\ inp' = [inp EXCEPT !.fileExists = TRUE, !.visible = TRUE,
                          !.listeners = @ \cup {inp.opened + 1},
                          !.opened = @ + 1]
    /\ sync' = [tempFileCallbacks |-> inp.opened + 1, tempFileWatchers |-> inp.opened + 1]
    /\ last' = [op |-> "openTempFile"]
    /\ UNCHANGED <<pc, out, user, noteFile, markdownFile, isUpdatingFromMarkdown>>

\* the user saves the file: every save listener calls the stored callback
\* with the content and goes on to close the editors
TempSave ==
    /\ inp.fileExists /\ inp.visible
    /\ inp.events < MaxEvents
    /\ inp' = [inp EXCEPT !.events = @ + 1]
    /\ out' = Called(inp.listeners)
    /\ user' = user \cup {[kind |-> "save", session |-> s] :
                             s \in IF sync.tempFileCallbacks # 0 THEN inp.listeners ELSE {}}
    /\ last' = [op |-> "save"]
    /\ UNCHANGED <<pc, sync, noteFile, markdownFile, isUpdatingFromMarkdown>>

\* the user closes the editor of the file without saving
TempClose(documentClosed) ==
    /\ inp.visible
    /\ inp.events < MaxEvents
    /\ inp' = [inp EXCEPT !.events = @ + 1, !.visible = FALSE]
    /\ user' = user \cup Closing(documentClosed)
    /\ last' = [op |-> "close"]
    /\ UNCHANGED <<pc, sync, out, noteFile, markdownFile, isUpdatingFromMarkdown>>

\* the save listener h closes the editors that show the file
SaveCloseEditors(h, documentClosed) ==
    /\ h \in user /\ h.kind = "save"
    /\ inp' = [inp EXCEPT !.visible = FALSE]
    /\ user' = (user \ {h})
                  \cup {[kind |-> "cleanup", session |-> h.session]}
                  \cup (IF inp.visible THEN Closing(documentClosed) ELSE {})
    /\ last' = [op |-> "closeEditors"]
    /\ UNCHANGED <<pc, sync, out, noteFile, markdownFile, isUpdatingFromMarkdown>>

\* cleanupTempFile: the disposables in tempFileWatchers are disposed, the
\* entries of the path are deleted, the file is unlinked
cleanupTempFile ==
    /\ inp' = [inp EXCEPT !.listeners = @ \ {sync.tempFileWatchers}, !.fileExists = FALSE]
    /\ sync' = [tempFileCallbacks |-> 0, tempFileWatchers |-> 0]
    /\ last' = [op |-> "cleanupTempFile"]

\* the save listener h cleans up
SaveCleanup(h) ==
    /\ h \in user /\ h.kind = "cleanup"
    /\ cleanupTempFile
    /\ user' = user \ {h}
    /\ UNCHANGED <<pc, out, noteFile, markdownFile, isUpdatingFromMarkdown>>

\* fs.access of the close or visibility listener h has settled: when the
\* file exists the stored callback is called with null and the listener
\* cleans up
ClosedAccess(h) ==
    /\ h \in user /\ h.kind \in {"visibility", "close"}
    /\ user' = user \ {h}
    /\ IF inp.fileExists
       THEN /\ out' = Called({h})
            /\ cleanupTempFile
       ELSE UNCHANGED <<inp, sync, out, last>>
    /\ UNCHANGED <<pc, noteFile, markdownFile, isUpdatingFromMarkdown>>

TempHandler ==
    [kind : {"save", "cleanup", "visibility", "close"}, session : 1..MaxSessions]

TempNext ==
    \/ OpenTempFile
    \/ TempSave
    \/ \E documentClosed \in BOOLEAN : TempClose(documentClosed)
    \/ \E h \in TempHandler, documentClosed \in BOOLEAN : SaveCloseEditors(h, documentClosed)
    \/ \E h \in TempHandler : SaveCleanup(h)
    \/ \E h \in TempHandler : ClosedAccess(h)

SpecTemp == TempInit /\ [][TempNext]_vars

\* C28: the callback of a session is called at most once, and after
\* cleanupTempFile no listener of the path is registered.
C28_SingleOwner ==
    pc = "temp" =>
        /\ \A s \in 1..MaxSessions : out[s] <= 1
        /\ last.op = "cleanupTempFile" => inp.listeners = {}

====
